---- MODULE Spec2Model ----
(***************************************************************************)
(* ExpenseManager: the budget ledger (routes/budgets.js), the expense      *)
(* routes (routes/expenses.js) and the category directory they consult,    *)
(* over a document store whose single-document operations are atomic and   *)
(* whose handlers suspend at every await.                                  *)
(*                                                                         *)
(* A handler that awaits more than one store operation is modelled as a    *)
(* call record in the bag `calls` (requests are anonymous, so two running  *)
(* calls with the same arguments are two copies of one record): the        *)
(* action that starts it runs the validation                               *)
(* and the first store operation, and every later action runs the next     *)
(* awaited store operation together with the synchronous code up to the    *)
(* following await.  Handlers with a single store operation are one        *)
(* action.  Documents are identified by their position in the collection   *)
(* (the store hands out fresh _ids in insertion order).  Amounts are       *)
(* integers: floating point rounding is not modelled.                      *)
(***************************************************************************)
EXTENDS Integers, Sequences, FiniteSets, Bags, TLC

\* ---------------------------------------------------------------- bounds
MaxBudgets == 2
MaxFundings == 2
MaxExpenses == 1
MaxCategories == 1
MaxTime == 1
MaxAmount == 1
MaxTarget == 2
MaxProcs == 2
MaxWorkspaces == 2

\* ------------------------------------------------------- program constants
DefaultWindowDays == 30

Workspaces == {1, 2}
BudgetIds == 1..MaxBudgets
Dates == 0..MaxTime

\* sentinels: a missing / null reference, an unparsable id, an absent
\* timestamp, the Invalid Date value, a call that never got a response
NoId == 0
BadId == -1
KeepId == -2
NoTime == -1
NaT == -2
NoResponse == 0

VARIABLES budgets, fundings, expenses, categories, calls, clock, acked,
          orphans, response, logging, capacity, snaps, workspaceDocs, authEnv

vars ==
  <<budgets, fundings, expenses, categories, calls, clock, acked, orphans,
    response, logging, capacity, snaps, workspaceDocs, authEnv>>

\* ------------------------------------------------------------ the store
\* a store whose insert replaces the newest document (a lost update)
InsertOneOverwrite(coll, doc) ==
  IF coll = <<>> THEN <<doc>> ELSE [coll EXCEPT ![Len(coll)] = doc]

\* db.collection(c).insertOne(doc): the document is added, nothing else moves
InsertOne(coll, doc) == Append(coll, doc)

\* a lookup of an active budget that forgets the workspace filter
FindActiveBudgetAnywhere(ws, b) ==
  /\ b \in 1..Len(budgets)
  /\ budgets[b].active

\* budgets.findOne({_id, workspaceId: ws, active: {$ne: false}})
FindActiveBudget(ws, b) ==
  /\ b \in 1..Len(budgets)
  /\ budgets[b].workspaceId = ws
  /\ budgets[b].active

\* a lookup by id and workspace that skips archived budgets
FindBudgetIfActive(ws, b) ==
  /\ b \in 1..Len(budgets)
  /\ budgets[b].workspaceId = ws
  /\ budgets[b].active

\* budgets.findOne({_id, workspaceId: ws})
FindBudget(ws, b) ==
  /\ b \in 1..Len(budgets)
  /\ budgets[b].workspaceId = ws

RECURSIVE SumAmounts(_)
SumAmounts(docs) ==
  IF docs = <<>> THEN 0 ELSE docs[1].amount + SumAmounts(Tail(docs))

\* a match whose upper bound is inclusive
InWindowClosed(doc, ws, b, from, to) ==
  /\ doc.workspaceId = ws
  /\ doc.budgetId = b
  /\ doc.date >= from
  /\ doc.date <= to

\* {$match: {workspaceId, budgetId, date: {$gte: from, $lt: to}}}
InWindow(doc, ws, b, from, to) ==
  /\ doc.workspaceId = ws
  /\ doc.budgetId = b
  /\ doc.date >= from
  /\ doc.date < to

\* fundedAgg[0]?.total || 0
Funded(coll, ws, b, from, to) ==
  SumAmounts(SelectSeq(coll, LAMBDA d : InWindow(d, ws, b, from, to)))

\* a spent total that leaves archived expenses out
SpentActiveOnly(coll, ws, b, from, to) ==
  SumAmounts(SelectSeq(coll,
               LAMBDA d : InWindow(d, ws, b, from, to) /\ d.active))

\* spentAgg[0]?.total || 0
Spent(coll, ws, b, from, to) ==
  SumAmounts(SelectSeq(coll, LAMBDA d : InWindow(d, ws, b, from, to)))

\* match = {workspaceId: ws, active: {$ne: false}} with date.$gte and
\* date.$lt for the bounds the query gives
MonthlyMatch(doc, ws, fromQ, toQ) ==
  /\ doc.workspaceId = ws
  /\ doc.active
  /\ fromQ.kind = "value" => doc.date >= fromQ.v
  /\ toQ.kind = "value" => doc.date < toQ.v

\* GET /expenses/summary/monthly: {$group: {_id: {y, m}, spend: {$sum}}};
\* the dates of the model are taken to lie in a month each
MonthlySummary(coll, ws, fromQ, toQ) ==
  LET hit == SelectSeq(coll, LAMBDA d : MonthlyMatch(d, ws, fromQ, toQ))
  IN [m \in {hit[i].date : i \in 1..Len(hit)} |->
        SumAmounts(SelectSeq(hit, LAMBDA d : d.date = m))]

Max(a, b) == IF a >= b THEN a ELSE b

\* an optional request field: absent, unparsable, or a value
Absent == [kind |-> "absent", v |-> 0]
Invalid == [kind |-> "invalid", v |-> 0]
Some(x) == [kind |-> "value", v |-> x]

\* type: {enum: ['personal', 'business']}
Types == {"personal", "business"}

\* a token payload without an email
NoEmail == [kind |-> "absent", local |-> "", domain |-> "", upper |-> FALSE]

\* ------------------------------------------------------------ the calls
IdleCall ==
  [op |-> "none", pc |-> "done", status |-> NoResponse, error |-> "",
   ws |-> 0, budgetId |-> NoId, toId |-> NoId, amount |-> 0, date |-> 0,
   source |-> "", now |-> NoTime, inserted |-> <<>>,
   from |-> 0, to |-> 0, target |-> 0, funded |-> 0, spent |-> 0,
   remainingClassic |-> 0, envelopeRemaining |-> 0,
   categoryId |-> NoId, mapId |-> NoId, expenseId |-> NoId,
   setAmount |-> Absent, setDate |-> Absent, setBudget |-> KeepId,
   given |-> Absent,
   userId |-> NoId, docId |-> NoId, type |-> "", isDefault |-> FALSE,
   setType |-> "", setDefault |-> Absent,
   todo |-> [t \in Types |-> "done"], failed |-> FALSE,
   email |-> NoEmail, header |-> <<>>]

\* a request can be taken on while fewer than MaxProcs calls are running
Free == BagCardinality(calls) < MaxProcs

Running == BagToSet(calls)

\* res.status(status).json(...): the call is over
Respond(call, status, error) ==
  [call EXCEPT !.pc = "done", !.status = status, !.error = error]

\* the last answer sent, kept where the answers are observed
Log(r) == IF logging THEN r ELSE IdleCall

\* a request is answered with r before it awaits anything
Reject(r) == calls' = calls /\ response' = Log(r)

\* a request reaches its first await
Start(c) == calls' = calls (+) SetToBag({c}) /\ response' = response

\* the running call c ends with the answer r
Answer(c, r) == calls' = calls (-) SetToBag({c}) /\ response' = Log(r)

\* the running call c goes on to its next store operation as c2
Continue(c, c2) ==
  /\ calls' = (calls (-) SetToBag({c})) (+) SetToBag({c2})
  /\ response' = response

RECURSIVE SumOver(_, _)
SumOver(S, f) ==
  IF S = {} THEN 0
  ELSE LET x == CHOOSE y \in S : TRUE IN f[x] + SumOver(S \ {x}, f)

\* writes to fundings that a running call is still going to make
PendingFundings(c) ==
  IF c.pc = "insertOne" THEN 1
  ELSE IF c.pc = "insertMany" THEN 2
  ELSE IF c.pc = "insertMany2" THEN 1
  ELSE 0

FundingsRoom(n) ==
  Len(fundings)
    + SumOver(Running, [c \in Running |-> calls[c] * PendingFundings(c)])
    + n <= capacity

PendingExpenses(c) == IF c.op = "expenseCreate" THEN 1 ELSE 0

ExpensesRoom(n) ==
  Len(expenses)
    + SumOver(Running, [c \in Running |-> calls[c] * PendingExpenses(c)])
    + n <= MaxExpenses

\* the summaries in flight among the calls cs
Watched(cs) == {c \in BagToSet(cs) : c.op = "summary"}

\* the (funded, spent) totals the collections have held, one pair for every
\* state since the summary in flight was taken on
Observe ==
  snaps' =
    IF ~logging \/ Watched(calls') = {} THEN {}
    ELSE LET c == CHOOSE x \in Watched(calls') : TRUE
             held == <<Funded(fundings', c.ws, c.budgetId, c.from, c.to),
                       Spent(expenses', c.ws, c.budgetId, c.from, c.to)>>
         IN IF Watched(calls) = {} THEN {held} ELSE snaps \cup {held}

\* process.env as the middleware reads it when nothing is configured: the
\* allowlist is enforced, no database is connected yet
ProcessEnv == [ENFORCE_ALLOWLIST |-> TRUE, db |-> FALSE, allowlist |-> {}]

\* empty collections and no request in flight
Stores ==
  /\ budgets = <<>>
  /\ fundings = <<>>
  /\ expenses = <<>>
  /\ categories = <<>>
  /\ workspaceDocs = <<>>
  /\ calls = EmptyBag
  /\ clock = 0
  /\ acked = [b \in BudgetIds |-> 0]
  /\ orphans = 0
  /\ response = IdleCall
  /\ snaps = {}

\* an empty database and no request in flight
Empty ==
  /\ Stores
  /\ capacity = MaxFundings
  /\ authEnv = ProcessEnv

Init == Empty /\ logging = FALSE

\* the same start with the answers observed
InitLogged == Empty /\ logging = TRUE

\* the wall clock moves between any two steps
Tick ==
  /\ clock < MaxTime
  /\ clock' = clock + 1
  /\ UNCHANGED <<budgets, fundings, expenses, categories, calls, acked, orphans, response, logging,
               capacity, workspaceDocs, authEnv>>
  /\ Observe

\* ------------------------------------------------------ budgets: directory
\* POST /budgets
BudgetCreate(ws, target) ==
  /\ Len(budgets) < MaxBudgets
  /\ target >= 0
  /\ budgets' = InsertOne(budgets,
        [workspaceId |-> ws, target |-> target, active |-> TRUE,
         archivedAt |-> NoTime])
  /\ UNCHANGED <<fundings, expenses, categories, calls, clock, acked, orphans, response, logging,
               capacity, workspaceDocs, authEnv>>
  /\ Observe

\* a PATCH that leaves the active flag alone
BudgetPatchKeepsActive(ws, b, target, active) ==
  /\ target.kind = "value" \/ active.kind = "value"
  /\ target.kind = "value" => target.v >= 0
  /\ FindBudget(ws, b)
  /\ budgets' = [budgets EXCEPT
        ![b].target = IF target.kind = "value" THEN target.v ELSE @]
  /\ UNCHANGED <<fundings, expenses, categories, calls, clock, acked, orphans, response, logging,
               capacity, workspaceDocs, authEnv>>
  /\ Observe

\* PATCH /budgets/:id   ($set of the validated fields that are present)
BudgetPatch(ws, b, target, active) ==
  /\ target.kind = "value" \/ active.kind = "value"
  /\ target.kind = "value" => target.v >= 0
  /\ FindBudget(ws, b)
  /\ budgets' = [budgets EXCEPT
        ![b].target = IF target.kind = "value" THEN target.v ELSE @,
        ![b].active = IF active.kind = "value" THEN active.v = 1 ELSE @]
  /\ UNCHANGED <<fundings, expenses, categories, calls, clock, acked, orphans, response, logging,
               capacity, workspaceDocs, authEnv>>
  /\ Observe

\* an archive that also purges the ledger of the budget
BudgetDeleteCascade(ws, b) ==
  /\ FindActiveBudget(ws, b)
  /\ budgets' = [budgets EXCEPT ![b].active = FALSE, ![b].archivedAt = clock]
  /\ fundings' = SelectSeq(fundings, LAMBDA d : d.budgetId # b)
  /\ UNCHANGED <<expenses, categories, calls, clock, acked, orphans, response, logging,
               capacity, workspaceDocs, authEnv>>
  /\ Observe

\* DELETE /budgets/:id  (soft delete)
BudgetDelete(ws, b) ==
  /\ FindActiveBudget(ws, b)
  /\ budgets' = [budgets EXCEPT ![b].active = FALSE, ![b].archivedAt = clock]
  /\ UNCHANGED <<fundings, expenses, categories, calls, clock, acked, orphans, response, logging,
               capacity, workspaceDocs, authEnv>>
  /\ Observe

\* DELETE /budgets/:id when the id does not parse or the update matches no
\* active budget of the workspace: nothing is written
BudgetDeleteMiss(ws, b) ==
  /\ ~FindActiveBudget(ws, b)
  /\ LET call == [IdleCall EXCEPT !.op = "archive", !.ws = ws, !.budgetId = b]
     IN
     IF b = BadId
       THEN Reject(Respond(call, 400, "invalid id"))
     ELSE Reject(Respond(call, 404, "Budget not found or already archived"))
  /\ UNCHANGED <<budgets, fundings, expenses, categories, clock, acked, orphans, logging,
               capacity, workspaceDocs, authEnv>>
  /\ Observe

\* ------------------------------------------------------- budgets: funding
\* a funding document dated by the time of the request
FundDocNow(ws, b, amount, date, source, now) ==
  [workspaceId |-> ws, budgetId |-> b, amount |-> amount, date |-> now,
   source |-> IF source = "" THEN "manual" ELSE source, createdAt |-> now]

\* the document POST /budgets/:id/fund inserts
FundDoc(ws, b, amount, date, source, now) ==
  [workspaceId |-> ws, budgetId |-> b, amount |-> amount, date |-> date,
   source |-> IF source = "" THEN "manual" ELSE source, createdAt |-> now]

\* a schema that lets every number through
AnyAmount(amount) == amount.kind = "value"

\* amount: Joi.number().greater(0).required()
ValidAmount(amount) == amount.kind = "value" /\ amount.v > 0

\* POST /budgets/:id/fund, up to the answer of budgets.findOne
FundFind(ws, b, amount, date, source) ==
  /\ Free
  /\ LET call == [IdleCall EXCEPT !.op = "fund", !.ws = ws, !.budgetId = b,
                                  !.given = amount]
     IN
     IF b = BadId
       THEN Reject(Respond(call, 400, "invalid id"))
     ELSE IF ~ValidAmount(amount) \/ date.kind = "invalid"
       THEN Reject(Respond(call, 400, "validation"))
     ELSE IF ~FindActiveBudget(ws, b)
       THEN Reject(Respond(call, 404, "Budget not found or archived"))
     ELSE /\ FundingsRoom(1)
          /\ Start([call EXCEPT !.pc = "insertOne", !.amount = amount.v,
                   !.date = IF date.kind = "absent" THEN clock ELSE date.v,
                   !.source = source])
  /\ UNCHANGED <<budgets, fundings, expenses, categories, clock, acked, orphans, logging,
               capacity, workspaceDocs, authEnv>>
  /\ Observe

\* ... fundings.insertOne(doc) and the 201 answer
FundInsert(c) ==
  /\ c.op = "fund"
  /\ c.pc = "insertOne"
  /\ fundings' = InsertOne(fundings,
        FundDoc(c.ws, c.budgetId, c.amount, c.date, c.source, clock))
  /\ Answer(c, [Respond(c, 201, "") EXCEPT
                  !.inserted = <<Len(fundings) + 1>>])
  /\ acked' = [acked EXCEPT ![c.budgetId] = @ + c.amount]
  /\ UNCHANGED <<budgets, expenses, categories, clock, orphans, logging,
               capacity, workspaceDocs, authEnv>>
  /\ Observe

\* ------------------------------------------------------ budgets: transfer
\* transfer documents whose debit leg is not negated
TransferDocsUnsigned(ws, fromId, toId, amount, now) ==
  << [workspaceId |-> ws, budgetId |-> fromId, amount |-> amount,
      date |-> now, source |-> "transfer", createdAt |-> now],
     [workspaceId |-> ws, budgetId |-> toId, amount |-> amount,
      date |-> now, source |-> "transfer", createdAt |-> now] >>

\* transfer documents listed credit first
TransferDocsCreditFirst(ws, fromId, toId, amount, now) ==
  << [workspaceId |-> ws, budgetId |-> toId, amount |-> amount,
      date |-> now, source |-> "transfer", createdAt |-> now],
     [workspaceId |-> ws, budgetId |-> fromId, amount |-> 0 - amount,
      date |-> now, source |-> "transfer", createdAt |-> now] >>

\* the two documents POST /budgets/transfer hands to insertMany
TransferDocs(ws, fromId, toId, amount, now) ==
  << [workspaceId |-> ws, budgetId |-> fromId, amount |-> 0 - amount,
      date |-> now, source |-> "transfer", createdAt |-> now],
     [workspaceId |-> ws, budgetId |-> toId, amount |-> amount,
      date |-> now, source |-> "transfer", createdAt |-> now] >>

\* a lookup that takes one matching budget for both
FindAnyActiveBudget(ws, ids) ==
  IF \E b \in ids : FindActiveBudget(ws, b) THEN 2 ELSE 0

\* budgets.find({_id: {$in: [fromId, toId]}, workspaceId, active}).length
FindActiveBudgets(ws, ids) ==
  Cardinality({b \in ids : FindActiveBudget(ws, b)})

\* a comparison that never finds two ids equal
NeverSame(fromId, toId) == FALSE

\* String(fromId) === String(toId)
SameBudget(fromId, toId) == fromId = toId

\* a transfer that is answered from the ledger when the same transfer is
\* already there (a request deduplicated by its content)
TransferFindOnce(ws, fromId, toId, amount) ==
  /\ Free
  /\ LET call == [IdleCall EXCEPT !.op = "transfer", !.ws = ws,
                     !.budgetId = fromId, !.toId = toId, !.given = amount]
     IN
     IF ~ValidAmount(amount)
       THEN Reject(Respond(call, 400, "validation")) /\ acked' = acked
     ELSE IF fromId = BadId \/ toId = BadId \/ SameBudget(fromId, toId)
       THEN Reject(Respond(call, 400, "Invalid from/to budget")) /\ acked' = acked
     ELSE IF FindActiveBudgets(ws, {fromId, toId}) # 2
       THEN /\ Reject(Respond(call, 400, "Budgets not found or archived"))
            /\ acked' = acked
     ELSE IF \E i \in 1..Len(fundings) :
               /\ fundings[i].workspaceId = ws
               /\ fundings[i].budgetId = toId
               /\ fundings[i].amount = amount.v
               /\ fundings[i].source = "transfer"
       THEN /\ Reject(Respond(call, 201, ""))
            /\ acked' = [acked EXCEPT ![fromId] = @ - amount.v,
                                      ![toId] = @ + amount.v]
     ELSE /\ FundingsRoom(2)
          /\ Start([call EXCEPT !.pc = "insertMany",
                                      !.amount = amount.v])
          /\ acked' = acked
  /\ UNCHANGED <<budgets, fundings, expenses, categories, clock, orphans, logging,
               capacity, workspaceDocs, authEnv>>
  /\ Observe

\* POST /budgets/transfer, up to the answer of budgets.find
TransferFind(ws, fromId, toId, amount) ==
  /\ Free
  /\ LET call == [IdleCall EXCEPT !.op = "transfer", !.ws = ws,
                     !.budgetId = fromId, !.toId = toId, !.given = amount]
     IN
     IF ~ValidAmount(amount)
       THEN Reject(Respond(call, 400, "validation"))
     ELSE IF fromId = BadId \/ toId = BadId \/ SameBudget(fromId, toId)
       THEN Reject(Respond(call, 400, "Invalid from/to budget"))
     ELSE IF FindActiveBudgets(ws, {fromId, toId}) # 2
       THEN Reject(Respond(call, 400, "Budgets not found or archived"))
     ELSE /\ FundingsRoom(2)
          /\ Start([call EXCEPT !.pc = "insertMany",
                                      !.amount = amount.v])
  /\ UNCHANGED <<budgets, fundings, expenses, categories, clock, acked, orphans, logging,
               capacity, workspaceDocs, authEnv>>
  /\ Observe

\* ... now = new Date(), docs, and the first document of insertMany
TransferInsertDebit(c) ==
  /\ c.op = "transfer"
  /\ c.pc = "insertMany"
  /\ LET docs == TransferDocs(c.ws, c.budgetId, c.toId, c.amount, clock)
     IN
     /\ fundings' = InsertOne(fundings, docs[1])
     /\ Continue(c, [c EXCEPT !.pc = "insertMany2", !.now = clock,
                              !.inserted = <<Len(fundings) + 1>>])
  /\ UNCHANGED <<budgets, expenses, categories, clock, acked, orphans, logging,
               capacity, workspaceDocs, authEnv>>
  /\ Observe

\* ... the second document of insertMany and the 201 answer
TransferInsertCredit(c) ==
  /\ c.op = "transfer"
  /\ c.pc = "insertMany2"
  /\ LET docs == TransferDocs(c.ws, c.budgetId, c.toId, c.amount, c.now)
     IN
     /\ fundings' = InsertOne(fundings, docs[2])
     /\ Answer(c, [Respond(c, 201, "") EXCEPT
                     !.inserted = Append(c.inserted, Len(fundings) + 1)])
     /\ acked' = [acked EXCEPT ![c.budgetId] = @ - c.amount,
                               ![c.toId] = @ + c.amount]
  /\ UNCHANGED <<budgets, expenses, categories, clock, orphans, logging,
               capacity, workspaceDocs, authEnv>>
  /\ Observe

\* ------------------------------------------------------- budgets: summary
\* req.query.x ? new Date(req.query.x) : fallback
QueryDate(q, fallback) ==
  IF q.kind = "absent" THEN fallback
  ELSE IF q.kind = "invalid" THEN NaT
  ELSE q.v

\* GET /budgets/:id/summary, up to the answer of budgets.findOne
SummaryFind(ws, b, fromQ, toQ) ==
  /\ Free
  /\ LET call == [IdleCall EXCEPT !.op = "summary", !.ws = ws, !.budgetId = b]
         from == QueryDate(fromQ, clock - DefaultWindowDays)
         to == QueryDate(toQ, clock)
     IN
     IF b = BadId
       THEN Reject(Respond(call, 400, "invalid id"))
     ELSE IF ~FindBudget(ws, b)
       THEN Reject(Respond(call, 404, "Budget not found"))
     ELSE IF from = NaT \/ to = NaT
       THEN Reject(Respond(call, 400, "Invalid from/to"))
     ELSE Start([call EXCEPT !.pc = "aggFundings", !.from = from,
                                   !.to = to, !.target = budgets[b].target])
  /\ UNCHANGED <<budgets, fundings, expenses, categories, clock, acked, orphans, logging,
               capacity, workspaceDocs, authEnv>>
  /\ Observe

\* ... fundings.aggregate
SummaryFunded(c) ==
  /\ c.op = "summary"
  /\ c.pc = "aggFundings"
  /\ Continue(c, [c EXCEPT !.pc = "aggExpenses",
                  !.funded = Funded(fundings, c.ws, c.budgetId, c.from, c.to)])
  /\ UNCHANGED <<budgets, fundings, expenses, categories, clock, acked, orphans, logging,
               capacity, workspaceDocs, authEnv>>
  /\ Observe

\* a target-minus-spend view without the floor
RemainingUnfloored(target, spent) == target - spent

\* remainingClassic = Math.max(0, (budget.target || 0) - spent)
RemainingClassic(target, spent) == Max(0, target - spent)

\* an envelope view floored at zero
EnvelopeFloored(funded, spent) == Max(0, funded - spent)

\* envelopeRemaining = funded - spent
EnvelopeRemaining(funded, spent) == funded - spent

\* ... expenses.aggregate, the totals and the answer
SummarySpent(c) ==
  /\ c.op = "summary"
  /\ c.pc = "aggExpenses"
  /\ LET spent == Spent(expenses, c.ws, c.budgetId, c.from, c.to)
     IN
     Answer(c, [Respond(c, 200, "") EXCEPT
            !.spent = spent,
            !.remainingClassic = RemainingClassic(c.target, spent),
            !.envelopeRemaining = EnvelopeRemaining(c.funded, spent)])
  /\ UNCHANGED <<budgets, fundings, expenses, categories, clock, acked, orphans, logging,
               capacity, workspaceDocs, authEnv>>
  /\ Observe

\* --------------------------------------------------------------- categories
\* POST /categories: defaultBudgetId is stored as given
CategoryCreate(ws, defaultBudgetId) ==
  /\ Len(categories) < MaxCategories
  /\ categories' = InsertOne(categories,
        [workspaceId |-> ws, defaultBudgetId |-> defaultBudgetId])
  /\ UNCHANGED <<budgets, fundings, expenses, calls, clock, acked, orphans, response, logging,
               capacity, workspaceDocs, authEnv>>
  /\ Observe

\* categories.findOne({_id, workspaceId: ws})
FindCategory(ws, c) ==
  /\ c \in 1..Len(categories)
  /\ categories[c].workspaceId = ws

\* ----------------------------------------------------------------- expenses
\* what follows once the budget reference has been settled
AfterBudgetStep(op, categoryId) ==
  IF op = "expensePatch" /\ categoryId # NoId THEN "countCategory"
  ELSE IF op = "expensePatch" THEN "updateExpense"
  ELSE "insertExpense"

\* the first store operation a create or update has to await
FirstExpenseStep(op, categoryId, budgetId) ==
  IF categoryId # NoId /\ budgetId \in {NoId, KeepId} THEN "findCategory"
  ELSE IF budgetId \notin {NoId, KeepId} THEN "countBudget"
  ELSE AfterBudgetStep(op, categoryId)

\* POST /expenses: the synchronous part (oid, num, the expense object)
ExpenseCreate(ws, categoryId, budgetId, amount, date) ==
  /\ Free
  /\ LET call == [IdleCall EXCEPT !.op = "expenseCreate", !.ws = ws] IN
     IF amount.kind = "absent"
       THEN Reject(Respond(call, 400, "amount is required"))
     ELSE IF categoryId = BadId \/ budgetId = BadId
       THEN Reject(Respond(call, 400, "Invalid ObjectId"))
     ELSE IF amount.kind = "invalid"
       THEN Reject(Respond(call, 400, "amount must be a finite number"))
     ELSE /\ ExpensesRoom(1)
          /\ Start([call EXCEPT
                !.pc = FirstExpenseStep("expenseCreate", categoryId, budgetId),
                !.categoryId = categoryId, !.budgetId = budgetId,
                !.amount = amount.v,
                !.date = IF date.kind = "absent" THEN clock ELSE date.v])
  /\ UNCHANGED <<budgets, fundings, expenses, categories, clock, acked, orphans, logging,
               capacity, workspaceDocs, authEnv>>
  /\ Observe

\* PATCH /expenses/:id: the synchronous part (oid, pickExpenseUpdate)
ExpensePatch(ws, e, categoryId, budgetId, amount, date) ==
  /\ Free
  /\ LET call == [IdleCall EXCEPT !.op = "expensePatch", !.ws = ws,
                                  !.expenseId = e]
     IN
     IF e = BadId
       THEN Reject(Respond(call, 400, "Invalid ObjectId"))
     ELSE IF amount.kind = "invalid"
       THEN Reject(Respond(call, 400, "amount must be a finite number"))
     ELSE IF categoryId = BadId \/ budgetId = BadId
       THEN Reject(Respond(call, 400, "Invalid ObjectId"))
     ELSE Start([call EXCEPT
             !.pc = FirstExpenseStep("expensePatch", categoryId, budgetId),
             !.categoryId = categoryId, !.setBudget = budgetId,
             !.budgetId = IF budgetId = KeepId THEN NoId ELSE budgetId,
             !.setAmount = amount, !.setDate = date])
  /\ UNCHANGED <<budgets, fundings, expenses, categories, clock, acked, orphans, logging,
               capacity, workspaceDocs, authEnv>>
  /\ Observe

\* categories.findOne(..., {projection: {defaultBudgetId: 1}})
ExpenseFindCategory(c) ==
  /\ c.pc = "findCategory"
  /\ Continue(c,
       IF FindCategory(c.ws, c.categoryId)
          /\ categories[c.categoryId].defaultBudgetId # NoId
       THEN [c EXCEPT !.pc = "findDefaultBudget",
                      !.mapId = categories[c.categoryId].defaultBudgetId]
       ELSE [c EXCEPT !.pc = AfterBudgetStep(c.op, c.categoryId)])
  /\ UNCHANGED <<budgets, fundings, expenses, categories, clock, acked, orphans, logging,
               capacity, workspaceDocs, authEnv>>
  /\ Observe

\* budgets.findOne({_id: cat.defaultBudgetId, workspaceId, active})
ExpenseFindDefaultBudget(c) ==
  /\ c.pc = "findDefaultBudget"
  /\ Continue(c,
       IF FindActiveBudget(c.ws, c.mapId)
       THEN [c EXCEPT !.pc = "countBudget", !.budgetId = c.mapId,
                      !.setBudget = c.mapId, !.mapId = NoId]
       ELSE [c EXCEPT !.pc = AfterBudgetStep(c.op, c.categoryId),
                      !.mapId = NoId])
  /\ UNCHANGED <<budgets, fundings, expenses, categories, clock, acked, orphans, logging,
               capacity, workspaceDocs, authEnv>>
  /\ Observe

\* budgets.countDocuments({_id: budgetId, workspaceId, active}, {limit: 1})
ExpenseCountBudget(c) ==
  /\ c.pc = "countBudget"
  /\ IF FindActiveBudget(c.ws, c.budgetId)
     THEN Continue(c, [c EXCEPT !.pc = AfterBudgetStep(c.op, c.categoryId)])
     ELSE Answer(c,
            Respond(c, 400, "budgetId not found in workspace or archived"))
  /\ UNCHANGED <<budgets, fundings, expenses, categories, clock, acked, orphans, logging,
               capacity, workspaceDocs, authEnv>>
  /\ Observe

\* categories.countDocuments({_id: categoryId, workspaceId}, {limit: 1})
ExpenseCountCategory(c) ==
  /\ c.pc = "countCategory"
  /\ IF FindCategory(c.ws, c.categoryId)
     THEN Continue(c, [c EXCEPT !.pc = "updateExpense"])
     ELSE Answer(c, Respond(c, 400, "categoryId not found in workspace"))
  /\ UNCHANGED <<budgets, fundings, expenses, categories, clock, acked, orphans, logging,
               capacity, workspaceDocs, authEnv>>
  /\ Observe

\* the document POST /expenses inserts
ExpenseDoc(c) ==
  [workspaceId |-> c.ws, budgetId |-> c.budgetId, amount |-> c.amount,
   date |-> c.date, active |-> TRUE]

\* expenses.insertOne(expense) and the 201 answer
ExpenseInsert(c) ==
  /\ c.pc = "insertExpense"
  /\ expenses' = InsertOne(expenses, ExpenseDoc(c))
  /\ Answer(c, [Respond(c, 201, "") EXCEPT
                  !.inserted = <<Len(expenses) + 1>>])
  /\ UNCHANGED <<budgets, fundings, categories, clock, acked, orphans, logging,
               capacity, workspaceDocs, authEnv>>
  /\ Observe

\* the {$set} of PATCH /expenses/:id applied to the expense it matched
ApplyExpenseSet(doc, c) ==
  [doc EXCEPT
     !.amount = IF c.setAmount.kind = "value" THEN c.setAmount.v ELSE @,
     !.date = IF c.setDate.kind = "value" THEN c.setDate.v ELSE @,
     !.budgetId = IF c.setBudget = KeepId THEN @ ELSE c.setBudget]

\* expenses.findOne({_id, workspaceId: ws})
FindExpense(ws, e) ==
  /\ e \in 1..Len(expenses)
  /\ expenses[e].workspaceId = ws

\* expenses.findOneAndUpdate({_id, workspaceId}, {$set}) and the answer
ExpenseUpdate(c) ==
  /\ c.pc = "updateExpense"
  /\ IF FindExpense(c.ws, c.expenseId)
     THEN /\ expenses' = [expenses EXCEPT
                 ![c.expenseId] = ApplyExpenseSet(@, c)]
          /\ Answer(c, Respond(c, 200, ""))
     ELSE /\ expenses' = expenses
          /\ Answer(c, Respond(c, 404, "Expense not found"))
  /\ UNCHANGED <<budgets, fundings, categories, clock, acked, orphans, logging,
               capacity, workspaceDocs, authEnv>>
  /\ Observe

\* a delete that removes the expense document
RemoveExpense(coll, e) ==
  SubSeq(coll, 1, e - 1) \o SubSeq(coll, e + 1, Len(coll))

\* the update DELETE /expenses/:id applies to the expense it matched
ArchiveExpense(coll, e) == [coll EXCEPT ![e].active = FALSE]

\* DELETE /expenses/:id  (soft delete)
ExpenseDelete(ws, e) ==
  /\ FindExpense(ws, e)
  /\ expenses[e].active
  /\ expenses' = ArchiveExpense(expenses, e)
  /\ UNCHANGED <<budgets, fundings, categories, calls, clock, acked, orphans, response, logging,
               capacity, workspaceDocs, authEnv>>
  /\ Observe

\* POST /expenses/:id/restore
ExpenseRestore(ws, e) ==
  /\ FindExpense(ws, e)
  /\ ~expenses[e].active
  /\ expenses' = [expenses EXCEPT ![e].active = TRUE]
  /\ UNCHANGED <<budgets, fundings, categories, calls, clock, acked, orphans, response, logging,
               capacity, workspaceDocs, authEnv>>
  /\ Observe

\* ------------------------------------------------------------------ failure
\* an awaited store operation rejects: the budgets router has no catch, so
\* the call gets no answer; the expenses router answers through next(err)
StorageFail(c) ==
  /\ Answer(c, IF c.op \in {"expenseCreate", "expensePatch"}
               THEN Respond(c, 500, "storage")
               ELSE Respond(c, NoResponse, "storage"))
  /\ orphans' = orphans + Len(c.inserted)
  /\ UNCHANGED <<budgets, fundings, expenses, categories, clock, acked, logging,
               capacity, workspaceDocs, authEnv>>
  /\ Observe

\* ------------------------------------------------------------------- inputs
Sources == {"", "transfer"}
FundDates == {Absent} \cup {Some(d) : d \in Dates}
WindowFroms == {Absent, Invalid} \cup {Some(d) : d \in Dates}
WindowTos == {Absent, Invalid} \cup {Some(d + 1) : d \in Dates}
CategoryRefs == (1..MaxCategories) \cup {NoId}
ExpenseRefs == 1..MaxExpenses

\* the budget ledger: fundings and transfers against archivable budgets
NextLedger ==
  \/ Tick
  \/ \E ws \in Workspaces : BudgetCreate(ws, 0)
  \/ \E ws \in Workspaces, b \in BudgetIds : BudgetDelete(ws, b)
  \/ \E ws \in Workspaces, b \in BudgetIds, a \in 1..MaxAmount,
        d \in FundDates, s \in Sources : FundFind(ws, b, Some(a), d, s)
  \/ \E c \in Running : FundInsert(c)
  \/ \E ws \in Workspaces, f \in BudgetIds, t \in BudgetIds,
        a \in 1..MaxAmount : TransferFind(ws, f, t, Some(a))
  \/ \E c \in Running : TransferInsertDebit(c)
  \/ \E c \in Running : TransferInsertCredit(c)
  \/ \E c \in Running : StorageFail(c)

Spec == Init /\ [][NextLedger]_vars

\* transfers under the eyes of summary readers
NextReaders ==
  \/ Tick
  \/ \E ws \in Workspaces : BudgetCreate(ws, 0)
  \/ \E ws \in Workspaces, f \in BudgetIds, t \in BudgetIds,
        a \in 1..MaxAmount : TransferFind(ws, f, t, Some(a))
  \/ \E c \in Running : TransferInsertDebit(c)
  \/ \E c \in Running : TransferInsertCredit(c)
  \/ \E ws \in Workspaces, b \in BudgetIds, f \in WindowFroms,
        t \in WindowTos : SummaryFind(ws, b, f, t)
  \/ \E c \in Running : SummaryFunded(c)
  \/ \E c \in Running : SummarySpent(c)
  \/ \E c \in Running : StorageFail(c)

SpecReaders == Init /\ [][NextReaders]_vars

\* no call is running and no answer is waiting to be read: the next request
\* is served alone
Quiet == Running = {} /\ response = IdleCall

\* the client reads the answer to its request
Collect ==
  /\ response # IdleCall
  /\ response' = IdleCall
  /\ UNCHANGED <<budgets, fundings, expenses, categories, calls, clock, acked,
                 orphans, logging, capacity, workspaceDocs, authEnv>>
  /\ Observe

\* expenses with an explicit budget reference, one request at a time against
\* concurrent archiving of budgets and of expenses
NextExpenses ==
  \/ \E ws \in Workspaces : BudgetCreate(ws, 0)
  \/ \E ws \in Workspaces, b \in BudgetIds : BudgetDelete(ws, b)
  \/ \E ws \in Workspaces, b \in BudgetIds \cup {NoId} :
        Quiet /\ ExpenseCreate(ws, NoId, b, Some(1), Absent)
  \/ \E ws \in Workspaces, e \in ExpenseRefs,
        b \in BudgetIds \cup {NoId, KeepId},
        u \in {<<Absent, Absent>>, <<Some(2), Some(MaxTime)>>} :
          Quiet /\ ExpensePatch(ws, e, NoId, b, u[1], u[2])
  \/ \E c \in Running : ExpenseCountBudget(c)
  \/ \E c \in Running : ExpenseInsert(c)
  \/ \E c \in Running : ExpenseUpdate(c)
  \/ \E ws \in Workspaces, e \in ExpenseRefs : ExpenseDelete(ws, e)
  \/ \E ws \in Workspaces, e \in ExpenseRefs : ExpenseRestore(ws, e)
  \/ \E c \in Running : StorageFail(c)

SpecExpenses == Init /\ [][NextExpenses]_vars

\* every writer of a budget reference, one request at a time
NextTenancy ==
  \/ \E ws \in Workspaces : BudgetCreate(ws, 0)
  \/ \E ws \in Workspaces, b \in BudgetIds \cup {NoId} : CategoryCreate(ws, b)
  \/ \E ws \in Workspaces, b \in BudgetIds :
        Quiet /\ FundFind(ws, b, Some(1), Absent, "")
  \/ \E c \in Running : FundInsert(c)
  \/ \E ws \in Workspaces, f \in BudgetIds, t \in BudgetIds :
        Quiet /\ TransferFind(ws, f, t, Some(1))
  \/ \E c \in Running : TransferInsertDebit(c)
  \/ \E c \in Running : TransferInsertCredit(c)
  \/ \E ws \in Workspaces, k \in CategoryRefs, b \in BudgetIds \cup {NoId} :
        Quiet /\ ExpenseCreate(ws, k, b, Some(1), Absent)
  \/ \E ws \in Workspaces, e \in ExpenseRefs, k \in CategoryRefs,
        b \in BudgetIds \cup {NoId, KeepId} :
          Quiet /\ ExpensePatch(ws, e, k, b, Absent, Absent)
  \/ \E c \in Running : ExpenseFindCategory(c)
  \/ \E c \in Running : ExpenseFindDefaultBudget(c)
  \/ \E c \in Running : ExpenseCountBudget(c)
  \/ \E c \in Running : ExpenseCountCategory(c)
  \/ \E c \in Running : ExpenseInsert(c)
  \/ \E c \in Running : ExpenseUpdate(c)

SpecTenancy == Init /\ [][NextTenancy]_vars

\* what a client can put into the amount field of a fund or transfer body
RequestAmounts ==
  {Absent, Invalid, Some(0 - MaxAmount), Some(0), Some(MaxAmount)}

\* fundings and transfers with every kind of bad request, one request at a
\* time against budgets that come and go, the answers observed
NextErrors ==
  \/ \E ws \in Workspaces : BudgetCreate(ws, 0)
  \/ \E ws \in Workspaces, b \in BudgetIds : BudgetDelete(ws, b)
  \/ \E ws \in Workspaces, b \in BudgetIds \cup {BadId}, a \in RequestAmounts :
        Quiet /\ FundFind(ws, b, a, Absent, "")
  \/ \E c \in Running : FundInsert(c)
  \/ \E ws \in Workspaces, f \in BudgetIds \cup {BadId}, t \in BudgetIds,
        a \in RequestAmounts : Quiet /\ TransferFind(ws, f, t, a)
  \/ \E c \in Running : TransferInsertDebit(c)
  \/ \E c \in Running : TransferInsertCredit(c)
  \/ \E c \in Running : StorageFail(c)
  \/ Collect

SpecErrors == InitLogged /\ [][NextErrors]_vars

\* the amounts a client puts on an expense: a refund, and more than a funding
ExpenseAmounts == {Some(0 - MaxAmount), Some(MaxAmount + 1)}

\* the windows a client asks a summary for: the default one, an unparsable
\* bound, and every [from, to) over the dates of the entries
SummaryWindows ==
  {<<Absent, Absent>>, <<Some(0), Invalid>>}
    \cup {<<Some(f), Some(t)>> : f \in Dates, t \in 1..(MaxTime + 1)}

\* the workspace whose budgets are summarised
Owner == CHOOSE ws \in Workspaces : \A other \in Workspaces : ws <= other

\* summaries of the budgets of one workspace that are funded, spent from and
\* archived, asked for from every workspace, one request at a time, the
\* answers observed
NextSummary ==
  \/ \E g \in {0, MaxTarget} : BudgetCreate(Owner, g)
  \/ \E b \in BudgetIds : BudgetDelete(Owner, b)
  \/ \E b \in BudgetIds, d \in Dates :
        Quiet /\ FundFind(Owner, b, Some(MaxAmount), Some(d), "")
  \/ \E c \in Running : FundInsert(c)
  \/ \E b \in BudgetIds, a \in ExpenseAmounts, d \in Dates :
        Quiet /\ ExpenseCreate(Owner, NoId, b, a, Some(d))
  \/ \E c \in Running : ExpenseCountBudget(c)
  \/ \E c \in Running : ExpenseInsert(c)
  \/ \E ws \in Workspaces, b \in BudgetIds \cup {BadId}, w \in SummaryWindows :
        Quiet /\ SummaryFind(ws, b, w[1], w[2])
  \/ \E c \in Running : SummaryFunded(c)
  \/ \E c \in Running : SummarySpent(c)
  \/ Collect

SpecSummary == InitLogged /\ [][NextSummary]_vars

\* =================================================================== claims
\* the running call c ends in this step
CallEnds(c) == calls' = calls (-) SetToBag({c})

\* the running call c ends in this step with a write to fundings
Succeeds(c) == CallEnds(c) /\ fundings' # fundings

\* the funded total of a budget over a window holding every entry date
FundedTotal(b) ==
  Funded(fundings, budgets[b].workspaceId, b, 0, MaxTime + 1)

\* C1: a transfer that ends, however it ends, has left both of its legs in
\* fundings or none of them: no call ever ends having written one leg only
TransferAllOrNothing == orphans = 0

ActiveAtInsert ==
  [][ /\ \A i \in (Len(fundings) + 1)..Len(fundings') :
           FindActiveBudget(fundings'[i].workspaceId, fundings'[i].budgetId)
      /\ \A i \in (Len(expenses) + 1)..Len(expenses') :
           expenses'[i].budgetId # NoId =>
             FindActiveBudget(expenses'[i].workspaceId, expenses'[i].budgetId)
    ]_vars

\* the sum of the entries of a workspace that carry source 'transfer'
TransferNet(ws) ==
  SumAmounts(SelectSeq(fundings,
     LAMBDA d : d.workspaceId = ws /\ d.source = "transfer"))

TransferShape ==
  [][\A c \in Running :
       (c.op = "transfer" /\ Succeeds(c)) =>
          /\ Len(c.inserted) = 1
          /\ Len(fundings') = Len(fundings) + 1
          /\ LET debit == fundings'[c.inserted[1]]
                 credit == fundings'[Len(fundings')]
             IN /\ c.amount > 0
                /\ debit.amount = 0 - c.amount
                /\ credit.amount = c.amount
                /\ debit.budgetId = c.budgetId
                /\ credit.budgetId = c.toId
                /\ c.budgetId # c.toId
                /\ debit.workspaceId = c.ws
                /\ credit.workspaceId = c.ws
                /\ debit.date = credit.date
                /\ debit.createdAt = credit.createdAt
                /\ debit.date = debit.createdAt
                /\ debit.source = "transfer"
                /\ credit.source = "transfer"
    ]_vars

TransferShapeWitness ==
  /\ Running = {}
  /\ orphans = 0
  /\ Len(fundings) = 2
  /\ fundings[1].source = "transfer"
  /\ fundings[2].source = "transfer"
  /\ fundings[1].amount + fundings[2].amount = 0
  /\ fundings[1].budgetId # fundings[2].budgetId

\* C8: every step leaves the entries that fundings already holds in place
\* and unchanged; fundings only grows at its end
AppendOnly ==
  [][ /\ Len(fundings') >= Len(fundings)
      /\ SubSeq(fundings', 1, Len(fundings)) = fundings ]_vars

AppendOnlyWitness ==
  /\ Len(fundings) >= 2
  /\ \E b \in 1..Len(budgets) :
        /\ ~budgets[b].active
        /\ \E i \in 1..Len(fundings) : fundings[i].budgetId = b

\* C10: the step that completes fund(ws, budget, amount, date) raises the
\* funded total of that budget by amount over every window [from, to) with
\* from <= date < to and changes no other funded total
FundEffect ==
  [][\A c \in Running :
       (c.op = "fund" /\ Succeeds(c)) =>
          \A ws \in Workspaces, b \in BudgetIds,
             from \in 0..MaxTime, to \in 0..(MaxTime + 1) :
             Funded(fundings', ws, b, from, to) =
               Funded(fundings, ws, b, from, to)
                 + (IF ws = c.ws /\ b = c.budgetId
                       /\ from <= c.date /\ c.date < to
                    THEN c.amount ELSE 0)
    ]_vars

FundEffectWitness ==
  \E i \in 1..Len(fundings) :
     /\ fundings[i].source = "manual"
     /\ fundings[i].date < fundings[i].createdAt
     /\ Funded(fundings, fundings[i].workspaceId, fundings[i].budgetId,
               fundings[i].date, fundings[i].date + 1) >= fundings[i].amount
     /\ \E b \in 1..Len(budgets) : b # fundings[i].budgetId

\* the running call r reads fundings in this step (fundings.aggregate)
ReadsFundings(r) ==
  /\ r.op = "summary"
  /\ r.pc = "aggFundings"
  /\ calls' = (calls (-) SetToBag({r})) (+) SetToBag({
        [r EXCEPT !.pc = "aggExpenses",
                  !.funded = Funded(fundings, r.ws, r.budgetId, r.from, r.to)]})

\* the transfer t has written its debit leg and not yet its credit leg
HalfWritten(t) == t.op = "transfer" /\ t.pc = "insertMany2"

\* C2: no summary of the source or destination budget of a transfer reads
\* fundings, over a window holding the transfer time, while one leg of that
\* transfer is in fundings and the other is not
ReaderIsolation ==
  [][\A r \in Running :
       ReadsFundings(r) =>
          ~ \E t \in Running :
               /\ HalfWritten(t)
               /\ t.ws = r.ws
               /\ r.budgetId \in {t.budgetId, t.toId}
               /\ r.from <= t.now
               /\ t.now < r.to
    ]_vars

\* C5: every funding entry, and every expense that carries a budgetId,
\* references a budget of its own workspace
TenantIntegrity ==
  /\ \A i \in 1..Len(fundings) :
        FindBudget(fundings[i].workspaceId, fundings[i].budgetId)
  /\ \A i \in 1..Len(expenses) :
        expenses[i].budgetId # NoId =>
           FindBudget(expenses[i].workspaceId, expenses[i].budgetId)

TenantIntegrityWitness ==
  /\ Len(fundings) >= 1
  /\ \E i \in 1..Len(expenses) : expenses[i].budgetId # NoId
  /\ \E a \in 1..Len(budgets), b \in 1..Len(budgets) :
        budgets[a].workspaceId # budgets[b].workspaceId
  /\ \E k \in 1..Len(categories) :
        /\ categories[k].defaultBudgetId \in 1..Len(budgets)
        /\ budgets[categories[k].defaultBudgetId].workspaceId
             # categories[k].workspaceId

ActiveInWorkspace(ws, b) ==
  /\ b \in 1..Len(budgets)
  /\ budgets[b].workspaceId = ws
  /\ budgets[b].active

\* the requests for op taken on in this step, each as the record that tells
\* what became of it: the answer it got at once, or the call it started
Requested(op) ==
  IF ~Quiet THEN {}
  ELSE IF calls' = calls
    THEN IF response' # response /\ response'.op = op
         THEN {response'} ELSE {}
  ELSE {c \in BagToSet(calls') : c.op = op}

\* the request r was turned down in this step with this answer: nothing is
\* awaited, nothing is written
TurnedDown(r, status, error) ==
  /\ r.status = status
  /\ r.error = error
  /\ calls' = calls
  /\ fundings' = fundings

\* the amount field of the request r is a number greater than zero
GoodAmount(r) == r.given.kind = "value" /\ r.given.v > 0

\* C11: a well-formed fund request on a budget that is missing, of another
\* workspace or archived is answered 404 'Budget not found or archived' and
\* leaves fundings unchanged, with no insert to follow
FundUnknownBudget ==
  [][\A r \in Requested("fund") :
       (r.budgetId # BadId /\ GoodAmount(r)
          /\ ~ActiveInWorkspace(r.ws, r.budgetId)) =>
             TurnedDown(r, 404, "Budget not found or archived")
    ]_vars

FundUnknownBudgetWitness ==
  /\ response.op = "fund"
  /\ response.status = 404
  /\ response.budgetId \in 1..Len(budgets)
  /\ budgets[response.budgetId].workspaceId = response.ws
  /\ ~budgets[response.budgetId].active
  /\ \E i \in 1..Len(fundings) : fundings[i].budgetId = response.budgetId

\* C12: a well-formed transfer between two different budgets goes on to its
\* writes only if both budgets are active budgets of the workspace; in
\* every other case, a partial match included, it is answered 'Budgets not
\* found or archived' and writes nothing
TransferNeedsBothBudgets ==
  [][\A r \in Requested("transfer") :
       (r.budgetId # BadId /\ r.toId # BadId /\ r.budgetId # r.toId
          /\ GoodAmount(r)) =>
             IF ActiveInWorkspace(r.ws, r.budgetId)
                  /\ ActiveInWorkspace(r.ws, r.toId)
             THEN calls' # calls /\ fundings' = fundings
             ELSE TurnedDown(r, 400, "Budgets not found or archived")
    ]_vars

TransferNeedsBothBudgetsWitness ==
  /\ response.op = "transfer"
  /\ response.error = "Budgets not found or archived"
  /\ ActiveInWorkspace(response.ws, response.budgetId)
  /\ response.toId \in 1..Len(budgets)
  /\ ~ActiveInWorkspace(response.ws, response.toId)

\* C13: a transfer with a valid amount whose source and destination are the
\* same budget is answered 'Invalid from/to budget' before anything is
\* awaited, and the ledger is unchanged
SameBudgetRejected ==
  [][\A r \in Requested("transfer") :
       (r.budgetId # BadId /\ r.budgetId = r.toId /\ GoodAmount(r)) =>
          TurnedDown(r, 400, "Invalid from/to budget")
    ]_vars

SameBudgetRejectedWitness ==
  /\ response.op = "transfer"
  /\ response.error = "Invalid from/to budget"
  /\ response.budgetId = response.toId
  /\ ActiveInWorkspace(response.ws, response.budgetId)

\* C14: a fund or transfer request with a missing, non-finite, zero or
\* negative amount is answered 400 before anything is written; every ledger
\* entry has a non-zero amount, every manual entry a positive one, and every
\* transfer under way moves a positive amount
AmountsValidated ==
  [][ /\ \A i \in 1..Len(fundings') :
           /\ fundings'[i].amount # 0
           /\ fundings'[i].source = "manual" => fundings'[i].amount > 0
      /\ \A c \in BagToSet(calls') : c.op = "transfer" => c.amount > 0
      /\ \A r \in Requested("fund") :
           (r.budgetId # BadId /\ ~GoodAmount(r)) =>
              TurnedDown(r, 400, "validation")
      /\ \A r \in Requested("transfer") :
           ~GoodAmount(r) => TurnedDown(r, 400, "validation")
    ]_vars

AmountsValidatedWitness ==
  /\ response.status = 400
  /\ response.error = "validation"
  /\ response.given = Some(0)
  /\ ActiveInWorkspace(response.ws, response.budgetId)
  /\ \E i \in 1..Len(fundings) : fundings[i].amount < 0

\* C15: a transfer that has ended with both legs written was answered 201,
\* and one that has ended with fewer than two legs written was answered
\* with an error
TransferEndsWithVerdict ==
  response.op = "transfer" =>
     IF Len(response.inserted) = 2
     THEN response.status = 201
     ELSE response.status \in {400, 404, 500}

\* the requests for op that get their answer in this step
Answered(op) ==
  IF response' # response /\ response'.op = op THEN {response'} ELSE {}

\* the sum of the amounts of the documents of coll that belong to budget b
\* of workspace ws and are dated d with from <= d < to, counted one by one
TotalOf(coll, ws, b, from, to) ==
  LET S == {i \in 1..Len(coll) :
              /\ coll[i].workspaceId = ws
              /\ coll[i].budgetId = b
              /\ from <= coll[i].date
              /\ coll[i].date < to}
  IN SumOver(S, [i \in S |-> coll[i].amount])

\* C16 as stated: every stored expense has amount >= 0 and every summary
\* answers spent >= 0
SpentNeverNegative ==
  /\ \A i \in 1..Len(expenses) : expenses[i].amount >= 0
  /\ (response.op = "summary" /\ response.status = 200) => response.spent >= 0

\* C17: every summary answers remainingClassic = max(0, target - spent) for
\* the target of the budget and the spent it reports, which is never negative
RemainingClassicFloored ==
  [][\A r \in Answered("summary") :
       r.status = 200 =>
          LET t == budgets[r.budgetId].target
              d == t - r.spent
          IN /\ r.target = t
             /\ r.spent = TotalOf(expenses, r.ws, r.budgetId, r.from, r.to)
             /\ r.remainingClassic = (IF d > 0 THEN d ELSE 0)
             /\ r.remainingClassic >= 0
    ]_vars

RemainingClassicFlooredWitness ==
  /\ response.op = "summary"
  /\ response.status = 200
  /\ response.target = 0
  /\ response.spent > 0
  /\ response.remainingClassic = 0

\* C18: every summary answers envelopeRemaining = funded - spent with no
\* floor, negative exactly when spent exceeds funded
EnvelopeUnfloored ==
  [][\A r \in Answered("summary") :
       r.status = 200 =>
          LET f == TotalOf(fundings, r.ws, r.budgetId, r.from, r.to)
              s == TotalOf(expenses, r.ws, r.budgetId, r.from, r.to)
          IN /\ r.envelopeRemaining = f - s
             /\ (r.envelopeRemaining < 0) <=> (s > f)
    ]_vars

EnvelopeUnflooredWitness ==
  /\ response.op = "summary"
  /\ response.status = 200
  /\ response.funded > 0
  /\ response.spent > response.funded
  /\ response.envelopeRemaining < 0

\* C19: every summary answers, as funded and as spent, the sum of exactly
\* the entries and the expenses of its budget and workspace dated d with
\* from <= d < to
HalfOpenWindow ==
  [][\A r \in Answered("summary") :
       r.status = 200 =>
          /\ r.funded = TotalOf(fundings, r.ws, r.budgetId, r.from, r.to)
          /\ r.spent = TotalOf(expenses, r.ws, r.budgetId, r.from, r.to)
    ]_vars

HalfOpenWindowWitness ==
  /\ response.op = "summary"
  /\ response.status = 200
  /\ \E i \in 1..Len(fundings), j \in 1..Len(fundings) :
        /\ fundings[i].budgetId = response.budgetId
        /\ fundings[j].budgetId = response.budgetId
        /\ fundings[i].date = response.from
        /\ fundings[j].date = response.to
        /\ response.funded = fundings[i].amount
  /\ \E e \in 1..Len(expenses) :
        /\ expenses[e].budgetId = response.budgetId
        /\ expenses[e].date = response.to
        /\ response.spent = 0

\* the budget b is archived in this step
Archives(b) ==
  /\ b \in 1..Len(budgets)
  /\ budgets[b].active
  /\ ~budgets'[b].active

\* C20: archiving a budget leaves every entry and expense, and so every
\* funded and spent total, as it was; a summary is answered 404 exactly when
\* its budget id does not resolve within the workspace of the caller,
\* archived or not, and what it answers for an archived budget are the
\* totals of the entries in place
ArchivedStillSummarised ==
  [][ /\ \A b \in BudgetIds :
           Archives(b) => fundings' = fundings /\ expenses' = expenses
      /\ \A r \in Requested("summary") :
           r.budgetId # BadId =>
              IF r.budgetId \in 1..Len(budgets)
                   /\ budgets[r.budgetId].workspaceId = r.ws
              THEN r.status # 404
              ELSE /\ TurnedDown(r, 404, "Budget not found")
                   /\ expenses' = expenses
      /\ \A r \in Answered("summary") :
           (r.status = 200 /\ ~budgets[r.budgetId].active) =>
              /\ r.funded = TotalOf(fundings, r.ws, r.budgetId, r.from, r.to)
              /\ r.spent = TotalOf(expenses, r.ws, r.budgetId, r.from, r.to)
    ]_vars

ArchivedStillSummarisedWitness ==
  /\ response.op = "summary"
  /\ response.status = 200
  /\ ~budgets[response.budgetId].active
  /\ response.funded > 0
  /\ response.spent # 0


\* ------------------------------------------------- the life of a budget
PatchTargets == {Absent, Some(MaxTarget)}

PatchFlags == {Absent, Some(0), Some(1)}

\* budgets are created, edited, archived and restored while the clock runs;
\* one answer is read before the next refused archive is asked for
NextLifecycle ==
  \/ Tick
  \/ \E ws \in Workspaces : BudgetCreate(ws, 0)
  \/ \E ws \in Workspaces, b \in BudgetIds, t \in PatchTargets,
        a \in PatchFlags : BudgetPatch(ws, b, t, a)
  \/ \E ws \in Workspaces, b \in BudgetIds : BudgetDelete(ws, b)
  \/ \E ws \in Workspaces, b \in BudgetIds \cup {BadId} :
        response = IdleCall /\ BudgetDeleteMiss(ws, b)
  \/ Collect

SpecLifecycle == InitLogged /\ [][NextLifecycle]_vars

\* DELETE /budgets/:id as a whole, whichever way it is answered
DeleteRequest(ws, b) == BudgetDelete(ws, b) \/ BudgetDeleteMiss(ws, b)

\* C21: a budget is always either active or archived and is never removed;
\* DELETE takes an active budget to archived, PATCH with active=true takes an
\* archived budget back to active, and DELETE of an archived budget is
\* answered 404 and leaves every budget, archivedAt included, as it was
BudgetLifecycle ==
  [][/\ \A b \in 1..Len(budgets) : budgets[b].active \in BOOLEAN
     /\ Len(budgets') >= Len(budgets)
     /\ \A b \in 1..Len(budgets) :
          budgets'[b].workspaceId = budgets[b].workspaceId
     /\ \A b \in 1..Len(budgets) :
          LET ws == budgets[b].workspaceId IN
          /\ DeleteRequest(ws, b) =>
               IF budgets[b].active
                 THEN ~budgets'[b].active /\ budgets'[b].archivedAt = clock
                 ELSE /\ budgets' = budgets
                      /\ TurnedDown(response', 404,
                                    "Budget not found or already archived")
          /\ \A t \in PatchTargets :
               BudgetPatch(ws, b, t, Some(1)) => budgets'[b].active]_vars

\* a budget that was archived by DELETE is active again, and a DELETE of a
\* budget that is archived has just been refused
BudgetLifecycleWitness ==
  /\ \E b \in 1..Len(budgets) :
       budgets[b].active /\ budgets[b].archivedAt # NoTime
  /\ response.op = "archive"
  /\ response.status = 404
  /\ response.budgetId \in 1..Len(budgets)
  /\ budgets[response.budgetId].workspaceId = response.ws
  /\ ~budgets[response.budgetId].active

\* C30: a budget has archivedAt set exactly when it is archived, whichever
\* of create, PATCH and DELETE brought it there
ArchivedAtIffArchived ==
  \A b \in 1..Len(budgets) :
    (budgets[b].archivedAt # NoTime) <=> ~budgets[b].active


\* --------------------------------------------- the same transfer, repeated
\* a ledger with room for the transfer to be made twice over
InitRepeat ==
  /\ Stores
  /\ capacity = MaxFundings + MaxFundings
  /\ authEnv = ProcessEnv
  /\ logging = TRUE

RepeatFrom == CHOOSE b \in BudgetIds : \A other \in BudgetIds : b <= other

RepeatTo == RepeatFrom + 1

\* one client sends the same transfer request again and again, without
\* waiting for the answers, while budgets are created and archived
NextRepeat ==
  \/ Tick
  \/ \E g \in {0, MaxTarget} : BudgetCreate(Owner, g)
  \/ \E b \in BudgetIds : BudgetDelete(Owner, b)
  \/ TransferFind(Owner, RepeatFrom, RepeatTo, Some(MaxAmount))
  \/ \E c \in Running : TransferInsertDebit(c)
  \/ \E c \in Running : TransferInsertCredit(c)
  \/ Collect

SpecRepeat == InitRepeat /\ [][NextRepeat]_vars

\* the transfers answered 201 so far
Transferred == acked[RepeatTo] \div MaxAmount

\* the transfers that have written their debit and not yet their credit
HalfWay ==
  SumOver(Running,
          [c \in Running |-> IF c.pc = "insertMany2" THEN calls[c] ELSE 0])

\* C22: a transfer is not idempotent: every successful repetition of the
\* same request adds its own two entries, so after N successes the ledger
\* holds 2N entries and the totals have moved by N times the amount
TransferNotIdempotent ==
  /\ Len(fundings) = 2 * Transferred + HalfWay
  /\ FundedTotal(RepeatTo) = Transferred * MaxAmount
  /\ FundedTotal(RepeatFrom) = 0 - (Transferred + HalfWay) * MaxAmount

\* the same request has succeeded twice: four entries, totals moved twice
TransferNotIdempotentWitness ==
  /\ Running = {}
  /\ Transferred = 2
  /\ Len(fundings) = 4
  /\ FundedTotal(RepeatTo) = 2 * MaxAmount
  /\ FundedTotal(RepeatFrom) = 0 - 2 * MaxAmount


\* the running transfer c writes one of its legs in this step
WritesLeg(c) == TransferInsertDebit(c) \/ TransferInsertCredit(c)

\* C29: a transfer writes its debit before its credit: whenever a transfer
\* writes an inflow, its own outflow of the same amount is already in the
\* ledger, and a transfer that fails after one leg has written the debit
DebitBeforeCredit ==
  [][\A c \in Running :
       /\ WritesLeg(c) /\ fundings'[Len(fundings')].amount > 0 =>
            /\ c.inserted # <<>>
            /\ fundings[c.inserted[1]].budgetId = c.budgetId
            /\ fundings[c.inserted[1]].amount =
                 0 - fundings'[Len(fundings')].amount
            /\ fundings[c.inserted[1]].source = "transfer"
       /\ c.op = "transfer" /\ StorageFail(c) /\ c.inserted # <<>> =>
            fundings[c.inserted[1]].amount < 0]_vars

\* a transfer has failed between its legs: its debit is in the ledger and
\* no inflow is
DebitBeforeCreditWitness ==
  /\ orphans > 0
  /\ fundings # <<>>
  /\ \A i \in 1..Len(fundings) :
       fundings[i].amount < 0 /\ fundings[i].source = "transfer"


\* ------------------------------------------ a summary among running writers
\* the window the summaries of this slice are asked over: everything up to the
\* end of time
WholeWindow == <<Absent, Some(MaxTime + 1)>>

\* one summary at a time is asked for while fundings and expenses of the same
\* workspace are being written
NextPointInTime ==
  \/ BudgetCreate(Owner, 0)
  \/ \E b \in BudgetIds, d \in Dates :
        FundFind(Owner, b, Some(MaxAmount), Some(d), "")
  \/ \E c \in Running : FundInsert(c)
  \/ \E b \in BudgetIds, d \in Dates :
        ExpenseCreate(Owner, NoId, b, Some(MaxAmount + 1), Some(d))
  \/ \E c \in Running : ExpenseCountBudget(c)
  \/ \E c \in Running : ExpenseInsert(c)
  \/ \E b \in BudgetIds :
        /\ Watched(calls) = {}
        /\ response = IdleCall
        /\ SummaryFind(Owner, b, WholeWindow[1], WholeWindow[2])
  \/ \E c \in Running : SummaryFunded(c)
  \/ \E c \in Running : SummarySpent(c)
  \/ Collect

SpecPointInTime == InitLogged /\ [][NextPointInTime]_vars

\* C24: the funded and spent figures of a summary are the totals the two
\* collections held together at one instant while the request was served
PointInTimeSummary ==
  [][\A r \in Answered("summary") :
       r.status = 200 => <<r.funded, r.spent>> \in snaps]_vars


\* the expense e is archived or restored in this step
Shelved(e) ==
  \E ws \in Workspaces : ExpenseDelete(ws, e) \/ ExpenseRestore(ws, e)

\* what the active expenses of workspace ws dated in month m add up to,
\* counted one by one
ActiveInMonth(ws, m) ==
  LET S == {i \in 1..Len(expenses) :
              /\ expenses[i].workspaceId = ws
              /\ expenses[i].date = m
              /\ expenses[i].active}
  IN SumOver(S, [i \in S |-> expenses[i].amount])

\* C28: archiving or restoring an expense changes the spent total of no
\* budget over any window, and the monthly expenses summary counts the
\* active expenses only
ArchiveLeavesSpent ==
  [][/\ \A e \in 1..Len(expenses) :
          Shelved(e) =>
            \A ws \in Workspaces, b \in BudgetIds \cup {NoId},
               from \in Dates, to \in 1..(MaxTime + 1) :
              Spent(expenses', ws, b, from, to)
                = Spent(expenses, ws, b, from, to)
     /\ \A ws \in Workspaces :
          LET months == MonthlySummary(expenses, ws, Absent, Absent) IN
          \A m \in Dates :
            IF m \in DOMAIN months
              THEN months[m] = ActiveInMonth(ws, m)
              ELSE ActiveInMonth(ws, m) = 0]_vars

\* an archived expense of a budget: it is in the spent total of its budget
\* and in no month of the monthly summary
ArchiveLeavesSpentWitness ==
  \E e \in 1..Len(expenses) :
    LET x == expenses[e] IN
    /\ ~x.active
    /\ x.budgetId \in BudgetIds
    /\ x.amount # 0
    /\ Spent(expenses, x.workspaceId, x.budgetId, 0, MaxTime + 1) = x.amount
    /\ MonthlySummary(expenses, x.workspaceId, Absent, Absent) = <<>>


\* ------------------------------------------------- two workspaces side by side
\* both workspaces create, edit, archive, fund, transfer, spend and summarise,
\* each against every budget id there is, one request at a time, the answers
\* observed
NextIsolation ==
  \/ \E ws \in Workspaces : BudgetCreate(ws, 0)
  \/ \E ws \in Workspaces, b \in BudgetIds :
        BudgetPatch(ws, b, Some(MaxTarget), Absent)
  \/ \E ws \in Workspaces, b \in BudgetIds : BudgetDelete(ws, b)
  \/ \E ws \in Workspaces, b \in BudgetIds :
        Quiet /\ FundFind(ws, b, Some(MaxAmount), Absent, "")
  \/ \E c \in Running : FundInsert(c)
  \/ \E ws \in Workspaces, f \in BudgetIds, t \in BudgetIds :
        Quiet /\ TransferFind(ws, f, t, Some(MaxAmount))
  \/ \E c \in Running : TransferInsertDebit(c)
  \/ \E c \in Running : TransferInsertCredit(c)
  \/ \E ws \in Workspaces, b \in BudgetIds :
        Quiet /\ ExpenseCreate(ws, NoId, b, Some(MaxAmount + 1), Absent)
  \/ \E c \in Running : ExpenseCountBudget(c)
  \/ \E c \in Running : ExpenseInsert(c)
  \/ \E ws \in Workspaces, e \in ExpenseRefs : ExpenseDelete(ws, e)
  \/ \E ws \in Workspaces, b \in BudgetIds :
        Quiet /\ SummaryFind(ws, b, WholeWindow[1], WholeWindow[2])
  \/ \E c \in Running : SummaryFunded(c)
  \/ \E c \in Running : SummarySpent(c)
  \/ Collect

SpecIsolation == InitLogged /\ [][NextIsolation]_vars

\* everything workspace ws owns: its budgets, ledger entries and expenses,
\* each with its id
View(ws) ==
  <<{<<b, budgets[b]>> : b \in {i \in 1..Len(budgets) :
                                  budgets[i].workspaceId = ws}},
    {<<n, fundings[n]>> : n \in {i \in 1..Len(fundings) :
                                  fundings[i].workspaceId = ws}},
    {<<n, expenses[n]>> : n \in {i \in 1..Len(expenses) :
                                  expenses[i].workspaceId = ws}}>>

\* the step is a request issued in workspace ws, or a store operation of a
\* call that serves one
IssuedIn(ws) ==
  \/ BudgetCreate(ws, 0)
  \/ \E b \in BudgetIds : BudgetPatch(ws, b, Some(MaxTarget), Absent)
  \/ \E b \in BudgetIds : BudgetDelete(ws, b)
  \/ \E b \in BudgetIds : FundFind(ws, b, Some(MaxAmount), Absent, "")
  \/ \E f \in BudgetIds, t \in BudgetIds :
        TransferFind(ws, f, t, Some(MaxAmount))
  \/ \E b \in BudgetIds :
        ExpenseCreate(ws, NoId, b, Some(MaxAmount + 1), Absent)
  \/ \E e \in ExpenseRefs : ExpenseDelete(ws, e)
  \/ \E b \in BudgetIds : SummaryFind(ws, b, WholeWindow[1], WholeWindow[2])
  \/ \E c \in Running :
        /\ c.ws = ws
        /\ \/ FundInsert(c)
           \/ TransferInsertDebit(c)
           \/ TransferInsertCredit(c)
           \/ ExpenseCountBudget(c)
           \/ ExpenseInsert(c)
           \/ SummaryFunded(c)
           \/ SummarySpent(c)

\* the budget b exists and belongs to another workspace than ws
Foreign(ws, b) ==
  b \in 1..Len(budgets) /\ budgets[b].workspaceId # ws

Users == {1, 2}

\* the documents of the workspaces collection that have not been deleted
Present(docs) == {i \in 1..Len(docs) : docs[i].present}

\* Workspace.findOne({_id: id, userId})
FindWorkspace(user, id) ==
  /\ id \in Present(workspaceDocs)
  /\ workspaceDocs[id].userId = user

\* Workspace.countDocuments({userId, type})
CountSameType(docs, user, type) ==
  Cardinality({i \in Present(docs) :
                 docs[i].userId = user /\ docs[i].type = type})

\* updateMany({userId, type, _id: {$ne: desiredId}, isDefault: true},
\*            {$set: {isDefault: false}})
EnsureSingleDefault(docs, user, type, desiredId) ==
  [i \in 1..Len(docs) |->
     IF /\ docs[i].present
        /\ docs[i].userId = user
        /\ docs[i].type = type
        /\ i # desiredId
        /\ docs[i].isDefault
     THEN [docs[i] EXCEPT !.isDefault = FALSE]
     ELSE docs[i]]

\* a collection without the unique index
NoUniqueIndex(docs, id, doc) == FALSE

\* the partial unique index {userId, type, isDefault} where isDefault is
\* true: writing doc as document id would make a second default (E11000)
DuplicateDefault(docs, id, doc) ==
  /\ doc.isDefault
  /\ \E i \in Present(docs) :
       /\ i # id
       /\ docs[i].userId = doc.userId
       /\ docs[i].type = doc.type
       /\ docs[i].isDefault

WorkspaceDoc(user, type, isDefault) ==
  [userId |-> user, type |-> type, isDefault |-> isDefault, present |-> TRUE]

\* documents a running call is still going to insert
PendingWorkspaces(c) ==
  IF c.op = "wsCreate" THEN 1
  ELSE IF c.op = "wsEnsure"
    THEN Cardinality({t \in Types : c.todo[t] \in {"find", "create"}})
  ELSE 0

WorkspaceRoom(n) ==
  Len(workspaceDocs)
    + SumOver(Running, [c \in Running |-> calls[c] * PendingWorkspaces(c)])
    + n <= MaxWorkspaces

\* POST /workspaces, up to its first store operation: ensureSingleDefault
\* when the new workspace is to be the default, Workspace.create otherwise
WsCreate(user, type, isDefault) ==
  /\ Free
  /\ LET call == [IdleCall EXCEPT !.op = "wsCreate", !.userId = user,
                                  !.type = type, !.isDefault = isDefault]
     IN
     IF type \notin Types
       THEN /\ Reject(Respond(call, 400,
                              "type must be 'personal' or 'business'"))
            /\ workspaceDocs' = workspaceDocs
     ELSE IF isDefault
       THEN /\ WorkspaceRoom(1)
            /\ workspaceDocs' =
                 EnsureSingleDefault(workspaceDocs, user, type, NoId)
            /\ Start([call EXCEPT !.pc = "create"])
     ELSE /\ WorkspaceRoom(1)
          /\ workspaceDocs' =
               InsertOne(workspaceDocs, WorkspaceDoc(user, type, FALSE))
          /\ Reject([Respond(call, 201, "") EXCEPT
                       !.docId = Len(workspaceDocs) + 1])
  /\ UNCHANGED <<budgets, fundings, expenses, categories, clock, acked,
                 orphans, logging, capacity, authEnv>>
  /\ Observe

\* ... Workspace.create({...data, userId}) of a default workspace
WsCreateInsert(c) ==
  /\ c.op = "wsCreate"
  /\ c.pc = "create"
  /\ LET doc == WorkspaceDoc(c.userId, c.type, c.isDefault) IN
     IF DuplicateDefault(workspaceDocs, NoId, doc)
       THEN /\ workspaceDocs' = workspaceDocs
            /\ Answer(c, Respond(c, 409,
                  "default workspace already exists for this type"))
     ELSE /\ workspaceDocs' = InsertOne(workspaceDocs, doc)
          /\ Answer(c, [Respond(c, 201, "") EXCEPT
                          !.docId = Len(workspaceDocs) + 1])
  /\ UNCHANGED <<budgets, fundings, expenses, categories, clock, acked,
                 orphans, logging, capacity, authEnv>>
  /\ Observe

\* PUT /workspaces/:id, up to the answer of Workspace.findOne
WsPut(user, id, setType, setDefault) ==
  /\ Free
  /\ LET call == [IdleCall EXCEPT !.op = "wsPut", !.userId = user,
                    !.docId = id, !.setType = setType,
                    !.setDefault = setDefault]
     IN
     IF id = BadId
       THEN Reject(Respond(call, 400, "invalid id"))
     ELSE IF ~FindWorkspace(user, id)
       THEN Reject(Respond(call, 404, "not found"))
     ELSE Start([call EXCEPT
            !.pc = IF setDefault = Some(1) THEN "clear" ELSE "save",
            !.type = workspaceDocs[id].type,
            !.isDefault = workspaceDocs[id].isDefault])
  /\ UNCHANGED <<budgets, fundings, expenses, categories, clock, acked,
                 orphans, logging, capacity, workspaceDocs, authEnv>>
  /\ Observe

\* ... ensureSingleDefault(req.user._id, doc.type, doc._id)
WsPutClear(c) ==
  /\ c.op = "wsPut"
  /\ c.pc = "clear"
  /\ workspaceDocs' =
       EnsureSingleDefault(workspaceDocs, c.userId, c.type, c.docId)
  /\ Continue(c, [c EXCEPT !.pc = "save"])
  /\ UNCHANGED <<budgets, fundings, expenses, categories, clock, acked,
                 orphans, logging, capacity, authEnv>>
  /\ Observe

\* ... Object.assign(doc, update); doc.save(): the paths whose value differs
\* from the document as it was found are written
WsPutSave(c) ==
  /\ c.op = "wsPut"
  /\ c.pc = "save"
  /\ LET old == workspaceDocs[c.docId]
         doc == [old EXCEPT
                   !.type = IF c.setType # "" /\ c.setType # c.type
                            THEN c.setType ELSE @,
                   !.isDefault =
                     IF c.setDefault.kind = "value"
                        /\ (c.setDefault.v = 1) # c.isDefault
                     THEN c.setDefault.v = 1 ELSE @]
     IN
     IF ~old.present
       THEN /\ workspaceDocs' = workspaceDocs
            /\ Answer(c, Respond(c, 500, "storage"))
     ELSE IF doc # old /\ DuplicateDefault(workspaceDocs, c.docId, doc)
       THEN /\ workspaceDocs' = workspaceDocs
            /\ Answer(c, Respond(c, 409,
                  "default workspace already exists for this type"))
     ELSE /\ workspaceDocs' = [workspaceDocs EXCEPT ![c.docId] = doc]
          /\ Answer(c, [Respond(c, 200, "") EXCEPT
                          !.type = doc.type, !.isDefault = doc.isDefault])
  /\ UNCHANGED <<budgets, fundings, expenses, categories, clock, acked,
                 orphans, logging, capacity, authEnv>>
  /\ Observe


AccountTypes == {"personal", "business", "both"}

\* needPersonal / needBusiness
Needs(accountType, t) == accountType = t \/ accountType = "both"

\* POST /workspaces/ensure: both lookups of ensureAtLeastOne are under way
WsEnsure(user, accountType) ==
  /\ Free
  /\ LET call == [IdleCall EXCEPT !.op = "wsEnsure", !.userId = user] IN
     IF accountType \notin AccountTypes
       THEN Reject(Respond(call, 400,
              "accountType must be 'personal', 'business', or 'both'"))
     ELSE /\ WorkspaceRoom(Cardinality({t \in Types :
                                          Needs(accountType, t)}))
          /\ Start([call EXCEPT !.pc = "ensure",
                !.todo = [t \in Types |->
                            IF Needs(accountType, t) THEN "find"
                            ELSE "done"]])
  /\ UNCHANGED <<budgets, fundings, expenses, categories, clock, acked,
                 orphans, logging, capacity, workspaceDocs, authEnv>>
  /\ Observe

\* ... exists = await Workspace.findOne({userId, type: t})
WsEnsureFind(c, t) ==
  /\ c.op = "wsEnsure"
  /\ c.todo[t] = "find"
  /\ Continue(c, [c EXCEPT !.todo[t] =
                    IF CountSameType(workspaceDocs, c.userId, t) > 0
                    THEN "done" ELSE "create"])
  /\ UNCHANGED <<budgets, fundings, expenses, categories, clock, acked,
                 orphans, logging, capacity, workspaceDocs, authEnv>>
  /\ Observe

\* ... Workspace.create({userId, type: t, name, isDefault: true})
WsEnsureCreate(c, t) ==
  /\ c.op = "wsEnsure"
  /\ c.todo[t] = "create"
  /\ LET doc == WorkspaceDoc(c.userId, t, TRUE) IN
     IF DuplicateDefault(workspaceDocs, NoId, doc)
       THEN /\ workspaceDocs' = workspaceDocs
            /\ Continue(c, [c EXCEPT !.todo[t] = "done", !.failed = TRUE])
     ELSE /\ workspaceDocs' = InsertOne(workspaceDocs, doc)
          /\ Continue(c, [c EXCEPT !.todo[t] = "done"])
  /\ UNCHANGED <<budgets, fundings, expenses, categories, clock, acked,
                 orphans, logging, capacity, authEnv>>
  /\ Observe

\* ... Promise.all has settled: the list is answered, or next(err)
WsEnsureAnswer(c) ==
  /\ c.op = "wsEnsure"
  /\ c.pc = "ensure"
  /\ \A t \in Types : c.todo[t] = "done"
  /\ Answer(c, IF c.failed THEN Respond(c, 500, "storage")
               ELSE Respond(c, 200, ""))
  /\ UNCHANGED <<budgets, fundings, expenses, categories, clock, acked,
                 orphans, logging, capacity, workspaceDocs, authEnv>>
  /\ Observe

\* DELETE /workspaces/:id, up to the answer of Workspace.findOne
WsDelete(user, id) ==
  /\ Free
  /\ LET call == [IdleCall EXCEPT !.op = "wsDelete", !.userId = user,
                                  !.docId = id]
     IN
     IF id = BadId
       THEN Reject(Respond(call, 400, "invalid id"))
     ELSE IF ~FindWorkspace(user, id)
       THEN Reject(Respond(call, 404, "not found"))
     ELSE Start([call EXCEPT !.pc = "count",
                             !.type = workspaceDocs[id].type])
  /\ UNCHANGED <<budgets, fundings, expenses, categories, clock, acked,
                 orphans, logging, capacity, workspaceDocs, authEnv>>
  /\ Observe

\* countSameType <= 1
TheOnlyOne(countSameType) == countSameType <= 1

\* ... Workspace.countDocuments({userId, type: doc.type}) and the safety check
WsDeleteCount(c) ==
  /\ c.op = "wsDelete"
  /\ c.pc = "count"
  /\ IF TheOnlyOne(CountSameType(workspaceDocs, c.userId, c.type))
       THEN Answer(c, Respond(c, 400, "cannot delete the only workspace"))
       ELSE Continue(c, [c EXCEPT !.pc = "deleteOne"])
  /\ UNCHANGED <<budgets, fundings, expenses, categories, clock, acked,
                 orphans, logging, capacity, workspaceDocs, authEnv>>
  /\ Observe

\* ... Workspace.deleteOne({_id: doc._id})
WsDeleteOne(c) ==
  /\ c.op = "wsDelete"
  /\ c.pc = "deleteOne"
  /\ workspaceDocs' = [workspaceDocs EXCEPT ![c.docId].present = FALSE]
  /\ Answer(c, Respond(c, 200, ""))
  /\ UNCHANGED <<budgets, fundings, expenses, categories, clock, acked,
                 orphans, logging, capacity, authEnv>>
  /\ Observe

WorkspaceIds == 1..MaxWorkspaces

\* the user whose requests are followed
Account == CHOOSE u \in Users : \A other \in Users : u <= other

\* workspaces of one user are created, updated and ensured by requests that
\* overlap
NextWorkspaces ==
  \/ \E t \in Types, d \in BOOLEAN : WsCreate(Account, t, d)
  \/ \E c \in Running : WsCreateInsert(c)
  \/ \E i \in WorkspaceIds, t \in Types \cup {""},
        d \in {Absent, Some(0), Some(1)} : WsPut(Account, i, t, d)
  \/ \E c \in Running : WsPutClear(c)
  \/ \E c \in Running : WsPutSave(c)
  \/ \E a \in AccountTypes : WsEnsure(Account, a)
  \/ \E c \in Running, t \in Types : WsEnsureFind(c, t)
  \/ \E c \in Running, t \in Types : WsEnsureCreate(c, t)
  \/ \E c \in Running : WsEnsureAnswer(c)
  \/ Collect

SpecWorkspaces == InitLogged /\ [][NextWorkspaces]_vars

\* workspaces are created and deleted by requests that overlap
NextLastWorkspace ==
  \/ \E u \in Users, t \in Types : WsCreate(u, t, FALSE)
  \/ \E u \in Users, i \in WorkspaceIds \cup {BadId} : WsDelete(u, i)
  \/ \E c \in Running : WsDeleteCount(c)
  \/ \E c \in Running : WsDeleteOne(c)
  \/ Collect

SpecLastWorkspace == InitLogged /\ [][NextLastWorkspace]_vars

\* the default workspaces user has of this type
Defaults(user, type) ==
  {i \in Present(workspaceDocs) :
     /\ workspaceDocs[i].userId = user
     /\ workspaceDocs[i].type = type
     /\ workspaceDocs[i].isDefault}

\* C25: a user who has a workspace of a type still has one of that type
\* after every step of every DELETE /workspaces/:id, however the requests
\* overlap, and the DELETE of the only workspace of a type is answered 400
\* with nothing removed
KeepsOneOfType ==
  [][/\ \A u \in Users, t \in Types :
          CountSameType(workspaceDocs, u, t) >= 1 =>
            CountSameType(workspaceDocs', u, t) >= 1
     /\ \A r \in Answered("wsDelete") :
          r.status = 400 /\ r.error # "invalid id" =>
            workspaceDocs' = workspaceDocs]_vars

\* no user has two default workspaces of one type
AtMostOneDefault ==
  \A u \in Users, t \in Types : Cardinality(Defaults(u, t)) <= 1

\* the answers create and update give in this step
Written == Answered("wsCreate") \cup Answered("wsPut")

Address(local, domain, upper) ==
  [kind |-> "string", local |-> local, domain |-> domain, upper |-> upper]

\* a token payload whose email is not a string
OddEmail == [kind |-> "other", local |-> "", domain |-> "", upper |-> FALSE]

\* String.prototype.toLowerCase on an address
ToLowerCase(e) == [e EXCEPT !.upper = FALSE]

\* OWNER_EMAIL = (process.env.OWNER_EMAIL || '...').toLowerCase()
OWNER_EMAIL == ToLowerCase(Address("owner", "home.example", TRUE))

\* the documents the allowlist collection can hold
AllowlistDocs ==
  {[type |-> "email", value |-> [local |-> "ann", domain |-> "else.example"]],
   [type |-> "domain", value |-> [local |-> "", domain |-> "firm.example"]]}

\* the Authorization headers that are sent, each as headerValue.split(' ')
\* gives it; <<>> is a header that is missing or empty
Headers ==
  {<<>>, <<"Bearer">>, <<"Bearer", "", "owner">>}
    \cup {<<s, t>> : s \in {"Bearer", "bearer", "Basic"},
                     t \in {"owner", "OWNER", "ann", "bob", "eve", "nobody",
                            "odd", "forged"}}

\* the payload jwt.verify returns for each token that verifies
Payload ==
  [t \in {"owner", "OWNER", "ann", "bob", "eve", "nobody", "odd"} |->
     [email |->
        CASE t = "owner" -> Address("owner", "home.example", FALSE)
          [] t = "OWNER" -> Address("owner", "home.example", TRUE)
          [] t = "ann" -> Address("ann", "else.example", FALSE)
          [] t = "bob" -> Address("bob", "firm.example", TRUE)
          [] t = "eve" -> Address("eve", "else.example", FALSE)
          [] t = "nobody" -> NoEmail
          [] OTHER -> OddEmail]]

\* jwt.verify(token, JWT_SECRET, {issuer, audience}) does not throw
Verifies(token) == token \in DOMAIN Payload

\* scheme.toLowerCase()
SchemeToLowerCase(scheme) ==
  IF scheme = "Bearer" THEN "bearer"
  ELSE IF scheme = "Basic" THEN "basic"
  ELSE scheme

\* parseBearerHeader: null, or the first two pieces of the header
ParseBearerHeader(headerValue) ==
  IF headerValue = <<>> THEN <<>>
  ELSE IF Len(headerValue) < 2 THEN <<>>
  ELSE IF headerValue[1] = "" \/ headerValue[2] = "" THEN <<>>
  ELSE <<headerValue[1], headerValue[2]>>

\* an allowlist that lets every address in
AnyoneAllowed(allowlist, email) == TRUE

\* allowlist.findOne({$or: [{type: 'email', value: email},
\*                          {type: 'domain', value: domain}]})
AllowHit(allowlist, email) ==
  \E doc \in allowlist :
    \/ /\ doc.type = "email"
       /\ doc.value = [local |-> email.local, domain |-> email.domain]
    \/ /\ doc.type = "domain"
       /\ doc.value = [local |-> "", domain |-> email.domain]

\* next(): the request goes on to its route
PassOn(call) == [call EXCEPT !.pc = "next"]

\* auth(req, res, next), up to the answer of allowlist.findOne
Auth(header) ==
  /\ Free
  /\ LET call == [IdleCall EXCEPT !.op = "auth", !.header = header]
         parsed == ParseBearerHeader(header)
     IN
     IF parsed = <<>> \/ SchemeToLowerCase(parsed[1]) # "bearer"
       THEN Reject(Respond(call, 401, "missing_authorization"))
     ELSE IF ~Verifies(parsed[2])
       THEN Reject(Respond(call, 401, "invalid_or_expired_token"))
     ELSE IF ~authEnv.ENFORCE_ALLOWLIST
       THEN Reject(PassOn(call))
     ELSE LET decoded == Payload[parsed[2]] IN
       IF decoded.email.kind = "other"
         THEN Reject(Respond(call, 401, "auth_failed"))
       ELSE LET email == ToLowerCase(decoded.email) IN
         IF email = OWNER_EMAIL
           THEN Reject(PassOn([call EXCEPT !.email = email]))
         ELSE IF ~authEnv.db
           THEN Reject(Respond([call EXCEPT !.email = email],
                               503, "db_unavailable"))
         ELSE Start([call EXCEPT !.pc = "allowlist", !.email = email])
  /\ UNCHANGED <<budgets, fundings, expenses, categories, clock, acked,
                 orphans, logging, capacity, workspaceDocs, authEnv>>
  /\ Observe

\* ... allowHit, and next() or 403
AuthLookup(c) ==
  /\ c.op = "auth"
  /\ c.pc = "allowlist"
  /\ IF AllowHit(authEnv.allowlist, c.email)
       THEN Answer(c, PassOn(c))
       ELSE Answer(c, Respond(c, 403, "not_allowed"))
  /\ UNCHANGED <<budgets, fundings, expenses, categories, clock, acked,
                 orphans, logging, capacity, workspaceDocs, authEnv>>
  /\ Observe

\* ... allowlist.findOne rejects: the catch-all answers 401
AuthLookupFails(c) ==
  /\ c.op = "auth"
  /\ c.pc = "allowlist"
  /\ Answer(c, Respond(c, 401, "auth_failed"))
  /\ UNCHANGED <<budgets, fundings, expenses, categories, clock, acked,
                 orphans, logging, capacity, workspaceDocs, authEnv>>
  /\ Observe

\* server.js sets app.locals.db once MongoDB is connected
DbConnects ==
  /\ ~authEnv.db
  /\ authEnv' = [authEnv EXCEPT !.db = TRUE]
  /\ UNCHANGED <<budgets, fundings, expenses, categories, calls, clock,
                 acked, orphans, response, logging, capacity, workspaceDocs>>
  /\ Observe

\* the process starts with either setting of ENFORCE_ALLOWLIST, any
\* allowlist in the database and the database not yet connected
InitAuth ==
  /\ Stores
  /\ capacity = MaxFundings
  /\ logging = TRUE
  /\ \E enforce \in BOOLEAN, allowlist \in SUBSET AllowlistDocs :
       authEnv = [ENFORCE_ALLOWLIST |-> enforce, db |-> FALSE,
                  allowlist |-> allowlist]

\* requests come in with every header, before and after the database is
\* connected
NextAuth ==
  \/ \E h \in Headers : Quiet /\ Auth(h)
  \/ \E c \in Running : AuthLookup(c)
  \/ \E c \in Running : AuthLookupFails(c)
  \/ DbConnects
  \/ Collect

SpecAuth == InitAuth /\ [][NextAuth]_vars

\* the header carries the Bearer scheme and a token that verifies
BearerVerified(header) ==
  /\ Len(header) >= 2
  /\ header[1] \in {"Bearer", "bearer"}
  /\ Verifies(header[2])

\* the email of the token of this header, capitals aside, is the owner's or
\* is on the allowlist by address or by domain
OwnerOrListed(header) ==
  LET e == Payload[header[2]].email IN
  /\ e.kind # "other"
  /\ \/ e.local = "owner" /\ e.domain = "home.example"
     \/ [type |-> "email", value |-> [local |-> e.local, domain |-> e.domain]]
          \in authEnv.allowlist
     \/ [type |-> "domain", value |-> [local |-> "", domain |-> e.domain]]
          \in authEnv.allowlist

\* C27: next() is called only for a header with the Bearer scheme and a
\* token that verifies whose email, when the allowlist is enforced, is the
\* owner's or is on the allowlist; a request of somebody else made while the
\* database is not available is answered 503, and a lookup that fails is
\* answered 401
AuthFailsClosed ==
  [][/\ \A r \in Answered("auth") :
          /\ r.pc = "next" =>
               /\ BearerVerified(r.header)
               /\ authEnv.ENFORCE_ALLOWLIST => OwnerOrListed(r.header)
          /\ \A c \in Running : AuthLookupFails(c) => r.status = 401
     /\ \A r \in Requested("auth") :
          /\ BearerVerified(r.header)
          /\ authEnv.ENFORCE_ALLOWLIST
          /\ ~authEnv.db
          /\ Payload[r.header[2]].email.kind # "other"
          /\ ToLowerCase(Payload[r.header[2]].email) # OWNER_EMAIL
          => r.status = 503 /\ r.pc = "done" /\ calls' = calls]_vars

\* with the allowlist enforced, the lookup has let through a request whose
\* address is not the owner's
AuthFailsClosedWitness ==
  /\ authEnv.ENFORCE_ALLOWLIST
  /\ response.op = "auth"
  /\ response.pc = "next"
  /\ response.email # OWNER_EMAIL
  /\ response.email # NoEmail

====
